---- MODULE Spec2Model ----
(***************************************************************************)
(* Monte Carlo estimation of PI (src/main.go): one call of parallelPi,     *)
(* its worker goroutines, the goroutine that closes the result channel     *)
(* after the WaitGroup drains, and the range loop that aggregates; then    *)
(* sequentialPi, main's sequence of runs and the processors goroutines     *)
(* run on.                                                                 *)
(***************************************************************************)
EXTENDS Integers, Sequences, FiniteSets, TLC

\* ---------------------------------------------------------------- bounds
MaxN == 3          \* largest totalPoints tried
MaxW == 2          \* largest numThreads tried
MaxClock == 1      \* time.Now().UnixNano() readings are 0..MaxClock
MaxNeg == 1        \* smallest numThreads tried is -MaxNeg
MaxProcs == 2      \* largest max-parallelism setting in force at the call

NumCPU == 2        \* runtime.NumCPU() of the machine, main.go:103

VARIABLES
    totalPoints,      \* parallelPi argument
    numThreads,       \* parallelPi argument
    pc,               \* position of the goroutine running parallelPi
    i,                \* launch loop index (main.go:70)
    pointsPerWorker,  \* main.go:63
    remainder,        \* main.go:64
    gomaxprocs,       \* process-wide runtime.GOMAXPROCS setting
    chanCap,          \* capacity of resultChan
    resultChan,       \* buffered values, oldest first; from is the sender's index
    closed,           \* resultChan has been closed
    closeCount,       \* number of close(resultChan) calls executed
    wgCounter,        \* sync.WaitGroup counter
    wpc,              \* position of each worker goroutine
    pts,              \* numPoints argument of each worker
    seed,             \* seed of each worker's rand.Source
    wi,               \* loop index i of each worker
    insideCircle,     \* insideCircle counter of each worker
    cpc,              \* position of the closer goroutine (main.go:84-87)
    totalInside,      \* main.go:90
    recvLog,          \* values the range loop has received, in order
    pi,               \* returned estimate as a fraction [num, den]
    panicked,         \* a goroutine hit a runtime panic
    panicCause,       \* the runtime error of that panic
    mpc,              \* position of main
    idx,              \* index into threadCounts of main's loop (main.go:122)
    report,           \* rows of main's report, in the order appended
    seqPc,            \* position of sequentialPi
    seqN,             \* numPoints argument of sequentialPi
    seqSeed,          \* seed given to the global generator (main.go:15)
    seqI,             \* loop index of sequentialPi
    seqInside,        \* insideCircle of sequentialPi
    seqPi,            \* estimate returned by sequentialPi, [num, den]
    stream,           \* the samples a generator yields, when they are fixed
    onProc            \* goroutines that hold a processor

vars == <<totalPoints, numThreads, pc, i, pointsPerWorker, remainder,
          gomaxprocs, chanCap, resultChan, closed, closeCount, wgCounter,
          wpc, pts, seed, wi, insideCircle, cpc, totalInside, recvLog, pi,
          panicked, panicCause, mpc, idx, report, seqPc, seqN, seqSeed, seqI,
          seqInside, seqPi, stream, onProc>>

mainVars   == <<pc, i, pointsPerWorker, remainder, gomaxprocs, totalInside, recvLog, pi>>
chanVars   == <<chanCap, resultChan, closed, closeCount>>
workerVars == <<wpc, pts, seed, wi, insideCircle>>
inputVars  == <<totalPoints, numThreads>>
progVars   == <<mpc, idx, report>>
seqVars    == <<seqPc, seqN, seqSeed, seqI, seqInside, seqPi>>
\* everything outside one call of parallelPi
outerVars  == <<progVars, seqVars, stream, onProc>>

Workers == 0 .. (numThreads - 1)

\* ------------------------------------------------------- pure arithmetic
\* Go integer division truncates toward zero; % takes the dividend's sign.
Abs(a) == IF a < 0 THEN -a ELSE a
Sign(a) == IF a < 0 THEN -1 ELSE 1
GoDiv(a, b) == Sign(a) * Sign(b) * (Abs(a) \div Abs(b))
GoMod(a, b) == a - b * GoDiv(a, b)

\* main.go:63
PointsPerWorker(n, w) == GoDiv(n, w)
\* main.go:64
Remainder(n, w) == GoMod(n, w)

\* main.go:71-74 with the remainder test off by one
CurrentPointsOffByOne(k, ppw, rem) == IF k <= rem THEN ppw + 1 ELSE ppw
\* main.go:71-74 without the remainder
CurrentPointsNoRemainder(k, ppw, rem) == ppw
\* main.go:71-74
CurrentPoints(k, ppw, rem) == IF k < rem THEN ppw + 1 ELSE ppw

\* make(chan int, numThreads - 1)
ChanCapacityShort(w) == w - 1
\* main.go:66
ChanCapacity(w) == w

\* wg.Add(1), main.go:76
WgAdd(counter) == counter + 1
\* a goroutine that returns without calling wg.Done
WgDoneMissing(counter) == counter
\* wg.Done(), main.go:78
WgDone(counter) == counter - 1
\* a closer that does not wait
WaitReadyNoJoin(counter) == TRUE
\* wg.Wait() returns, main.go:85
WaitReady(counter) == counter = 0

\* totalInside = count
AccumulateOverwrite(total, count) == count
\* main.go:92
Accumulate(total, count) == total + count

\* a loop that stops as soon as the channel is empty
RangeDoneOnEmpty(ch, isClosed) == Len(ch) = 0
\* the range loop of main.go:91 ends: channel closed and drained
RangeDone(ch, isClosed) == Len(ch) = 0 /\ isClosed

\* Float64() values in tenths, all in [0,1)
Coords == {0, 6, 8, 9}
\* main.go:46 (and :23): x*x + y*y <= 1.0, in tenths
InsideCircle(x, y) == x * x + y * y <= 10 * 10

\* main.go:38
Seed(now, numPoints) == now + numPoints

\* for i := 0; i <= numPoints; i++
AfterLoopTestInclusive(k, numPoints) == IF k <= numPoints THEN "loop" ELSE "send"
\* a loop that tests its condition only after the first pass
AfterLoopTestDoWhile(k, numPoints) == IF k < numPoints \/ k = 0 THEN "loop" ELSE "send"
\* main.go:42: position after the loop test
AfterLoopTest(k, numPoints) == IF k < numPoints THEN "loop" ELSE "send"

\* ------------------------------------------------------------------ Init
\* parallelPi called with a worker count from wSet
CallInit(wSet) ==
    /\ totalPoints \in 0 .. MaxN
    /\ numThreads \in wSet
    /\ pc = "start"
    /\ i = 0
    /\ pointsPerWorker = 0
    /\ remainder = 0
    /\ chanCap = 0
    /\ resultChan = <<>>
    /\ closed = FALSE
    /\ closeCount = 0
    /\ wgCounter = 0
    /\ wpc = [w \in 0 .. (numThreads - 1) |-> "unlaunched"]
    /\ pts = [w \in 0 .. (numThreads - 1) |-> 0]
    /\ seed = [w \in 0 .. (numThreads - 1) |-> 0]
    /\ wi = [w \in 0 .. (numThreads - 1) |-> 0]
    /\ insideCircle = [w \in 0 .. (numThreads - 1) |-> 0]
    /\ cpc = "unspawned"
    /\ totalInside = 0
    /\ recvLog = <<>>
    /\ pi = [num |-> 0, den |-> 0]
    /\ panicked = FALSE
    /\ panicCause = "none"
    /\ mpc = "call"
    /\ idx = 0
    /\ report = <<>>

\* sequentialPi is not running
SeqIdle ==
    /\ seqPc = "idle"
    /\ seqN = 0
    /\ seqSeed = 0
    /\ seqI = 0
    /\ seqInside = 0
    /\ seqPi = [num |-> 0, den |-> 0]
    /\ stream = <<>>

Init == CallInit(1 .. MaxW) /\ gomaxprocs = NumCPU /\ SeqIdle /\ onProc = {}

\* the worker counts include 0 and negative ones
AnyArgInit ==
    CallInit((0 - MaxNeg) .. MaxW) /\ gomaxprocs = NumCPU /\ SeqIdle /\ onProc = {}

\* ------------------------------------------------------------- parallelPi
\* runtime.GOMAXPROCS(n) that leaves the setting alone
SetMaxProcsKeep(cur, n) == cur
\* runtime.GOMAXPROCS(n), main.go:60 and :103: n < 1 does not change the setting
SetMaxProcs(cur, n) == IF n < 1 THEN cur ELSE n

\* main.go:63: integer division by zero panics
DivPanics(b) == b = 0
\* a make that accepts any size
MakeChanPanicsNever(n) == FALSE
\* main.go:66: make(chan int, n) panics for n < 0
MakeChanPanics(n) == n < 0

\* main.go:57-67
Setup ==
    /\ pc = "start"
    /\ ~panicked
    /\ gomaxprocs' = SetMaxProcs(gomaxprocs, numThreads)
    /\ IF DivPanics(numThreads)
         THEN /\ panicked' = TRUE
              /\ panicCause' = "integer divide by zero"
              /\ pc' = "panic"
              /\ UNCHANGED <<pointsPerWorker, remainder, chanCap, resultChan>>
         ELSE /\ pointsPerWorker' = PointsPerWorker(totalPoints, numThreads)
              /\ remainder' = Remainder(totalPoints, numThreads)
              /\ IF MakeChanPanics(numThreads)
                   THEN /\ panicked' = TRUE
                        /\ panicCause' = "makechan: size out of range"
                        /\ pc' = "panic"
                        /\ UNCHANGED <<chanCap, resultChan>>
                   ELSE /\ chanCap' = ChanCapacity(numThreads)
                        /\ resultChan' = <<>>
                        /\ pc' = "launch"
                        /\ UNCHANGED <<panicked, panicCause>>
    /\ UNCHANGED <<inputVars, i, closed, closeCount, wgCounter, workerVars,
                   cpc, totalInside, recvLog, pi>>
    /\ UNCHANGED outerVars

\* main.go:70-81, one iteration of the launch loop
Launch ==
    /\ pc = "launch"
    /\ ~panicked
    /\ i < numThreads
    /\ pts' = [pts EXCEPT ![i] = CurrentPoints(i, pointsPerWorker, remainder)]
    /\ wgCounter' = WgAdd(wgCounter)
    /\ wpc' = [wpc EXCEPT ![i] = "start"]
    /\ i' = i + 1
    /\ UNCHANGED <<inputVars, pc, pointsPerWorker, remainder, gomaxprocs,
                   chanVars, seed, wi, insideCircle, cpc, totalInside,
                   recvLog, pi, panicked, panicCause>>
    /\ UNCHANGED outerVars

\* main.go:70 (loop exit), 84-87 (go func), 90
SpawnCloser ==
    /\ pc = "launch"
    /\ ~panicked
    /\ ~(i < numThreads)
    /\ cpc' = "wait"
    /\ totalInside' = 0
    /\ pc' = "range"
    /\ UNCHANGED <<inputVars, i, pointsPerWorker, remainder, gomaxprocs,
                   chanVars, wgCounter, workerVars, recvLog, pi, panicked, panicCause>>
    /\ UNCHANGED outerVars

\* main.go:91-93, one value received and added
Receive ==
    /\ pc = "range"
    /\ ~panicked
    /\ Len(resultChan) > 0
    /\ totalInside' = Accumulate(totalInside, Head(resultChan).val)
    /\ recvLog' = Append(recvLog, Head(resultChan))
    /\ resultChan' = Tail(resultChan)
    /\ UNCHANGED <<inputVars, pc, i, pointsPerWorker, remainder, gomaxprocs,
                   chanCap, closed, closeCount, wgCounter, workerVars, cpc,
                   pi, panicked, panicCause>>
    /\ UNCHANGED outerVars

\* main.go:91 (loop exit), 95-99
Return ==
    /\ pc = "range"
    /\ ~panicked
    /\ RangeDone(resultChan, closed)
    /\ pi' = [num |-> 4 * totalInside, den |-> totalPoints]
    /\ pc' = "done"
    /\ UNCHANGED <<inputVars, i, pointsPerWorker, remainder, gomaxprocs,
                   chanVars, wgCounter, workerVars, cpc, totalInside,
                   recvLog, panicked, panicCause>>
    /\ UNCHANGED outerVars

\* ----------------------------------------------------------------- worker
\* main.go:38-42: seed the generator, zero the counter, first loop test
WorkerStart(w) ==
    /\ wpc[w] = "start"
    /\ ~panicked
    /\ \E now \in 0 .. MaxClock :
          seed' = [seed EXCEPT ![w] = Seed(now, pts[w])]
    /\ insideCircle' = [insideCircle EXCEPT ![w] = 0]
    /\ wi' = [wi EXCEPT ![w] = 0]
    /\ wpc' = [wpc EXCEPT ![w] = AfterLoopTest(0, pts[w])]
    /\ UNCHANGED <<inputVars, mainVars, chanVars, wgCounter, pts, cpc, panicked, panicCause>>
    /\ UNCHANGED outerVars

\* one iteration that counts into a counter all workers share
WorkerIterateShared(w, x, y) ==
    /\ wpc[w] = "loop"
    /\ ~panicked
    /\ insideCircle' = [insideCircle EXCEPT ![0] =
                           IF InsideCircle(x, y) THEN @ + 1 ELSE @]
    /\ wi' = [wi EXCEPT ![w] = @ + 1]
    /\ wpc' = [wpc EXCEPT ![w] = AfterLoopTest(wi[w] + 1, pts[w])]
    /\ UNCHANGED <<inputVars, mainVars, chanVars, wgCounter, pts, seed, cpc, panicked, panicCause>>
    /\ UNCHANGED outerVars

\* main.go:42-49, one iteration on the sample (x, y)
WorkerIterateWith(w, x, y) ==
    /\ wpc[w] = "loop"
    /\ ~panicked
    /\ insideCircle' = [insideCircle EXCEPT ![w] =
                           IF InsideCircle(x, y) THEN @ + 1 ELSE @]
    /\ wi' = [wi EXCEPT ![w] = @ + 1]
    /\ wpc' = [wpc EXCEPT ![w] = AfterLoopTest(wi[w] + 1, pts[w])]
    /\ UNCHANGED <<inputVars, mainVars, chanVars, wgCounter, pts, seed, cpc, panicked, panicCause>>
    /\ UNCHANGED outerVars

\* main.go:42-49, one iteration, the generator yielding any sample
WorkerIterate(w) ==
    \E x \in Coords, y \in Coords : WorkerIterateWith(w, x, y)

\* main.go:52: blocks while the buffer is full, panics on a closed channel
WorkerSend(w) ==
    /\ wpc[w] = "send"
    /\ ~panicked
    /\ closed \/ Len(resultChan) < chanCap
    /\ IF closed
         THEN /\ panicked' = TRUE
              /\ panicCause' = "send on closed channel"
              /\ UNCHANGED <<resultChan, wpc>>
         ELSE /\ resultChan' = Append(resultChan, [from |-> w, val |-> insideCircle[w]])
              /\ wpc' = [wpc EXCEPT ![w] = "sent"]
              /\ UNCHANGED <<panicked, panicCause>>
    /\ UNCHANGED <<inputVars, mainVars, chanCap, closed, closeCount, wgCounter,
                   pts, seed, wi, insideCircle, cpc>>
    /\ UNCHANGED outerVars

\* main.go:78, the deferred wg.Done() when worker returns
WorkerDone(w) ==
    /\ wpc[w] = "sent"
    /\ ~panicked
    /\ wgCounter' = WgDone(wgCounter)
    /\ wpc' = [wpc EXCEPT ![w] = "done"]
    /\ UNCHANGED <<inputVars, mainVars, chanVars, pts, seed, wi, insideCircle,
                   cpc, panicked, panicCause>>
    /\ UNCHANGED outerVars

\* ----------------------------------------------------------------- closer
\* main.go:85
CloserWait ==
    /\ cpc = "wait"
    /\ ~panicked
    /\ WaitReady(wgCounter)
    /\ cpc' = "close"
    /\ UNCHANGED <<inputVars, mainVars, chanVars, wgCounter, workerVars, panicked, panicCause>>
    /\ UNCHANGED outerVars

\* main.go:86: closing a closed channel panics
CloserClose ==
    /\ cpc = "close"
    /\ ~panicked
    /\ IF closed
         THEN /\ panicked' = TRUE
              /\ panicCause' = "close of closed channel"
              /\ UNCHANGED <<closed, closeCount>>
         ELSE /\ closed' = TRUE
              /\ closeCount' = closeCount + 1
              /\ UNCHANGED <<panicked, panicCause>>
    /\ cpc' = "done"
    /\ UNCHANGED <<inputVars, mainVars, chanCap, resultChan, wgCounter, workerVars>>
    /\ UNCHANGED outerVars

\* ------------------------------------------------------------------- spec
MainStep == Setup \/ Launch \/ SpawnCloser \/ Receive \/ Return
WorkerStep(w) == WorkerStart(w) \/ WorkerIterate(w) \/ WorkerSend(w) \/ WorkerDone(w)
CloserStep == CloserWait \/ CloserClose

Next ==
    \/ Setup
    \/ Launch
    \/ SpawnCloser
    \/ Receive
    \/ Return
    \/ \E w \in Workers : WorkerStart(w)
    \/ \E w \in Workers : WorkerIterate(w)
    \/ \E w \in Workers : WorkerSend(w)
    \/ \E w \in Workers : WorkerDone(w)
    \/ CloserWait
    \/ CloserClose

Spec == Init /\ [][Next]_vars

\* one call with any worker count
AnyArgSpec == AnyArgInit /\ [][Next]_vars

\* The Go scheduler runs every runnable goroutine eventually.
FairSpec ==
    /\ Spec
    /\ WF_vars(MainStep)
    /\ WF_vars(CloserStep)
    /\ \A w \in 0 .. (MaxW - 1) : WF_vars(w \in Workers /\ WorkerStep(w))

\* ----------------------------------------------------------- sequentialPi
\* x*x + y*y < 1.0
SeqInsideCircleStrict(x, y) == x * x + y * y < 10 * 10
\* main.go:23: x*x + y*y <= 1.0, in tenths
SeqInsideCircle(x, y) == x * x + y * y <= 10 * 10

\* main.go:18: position after the loop test
SeqAfterLoopTest(k, numPoints) == IF k < numPoints THEN "loop" ELSE "return"

\* main.go:15-18: seed the global generator, zero the counter, first loop test
SeqStart ==
    /\ seqPc = "start"
    /\ \E now \in 0 .. MaxClock : seqSeed' = now
    /\ seqInside' = 0
    /\ seqI' = 0
    /\ seqPc' = SeqAfterLoopTest(0, seqN)
    /\ UNCHANGED <<inputVars, mainVars, chanVars, wgCounter, workerVars, cpc,
                   panicked, panicCause, progVars, seqN, seqPi, stream, onProc>>

\* main.go:18-26, one iteration on the sample (x, y)
SeqIterateWith(x, y) ==
    /\ seqPc = "loop"
    /\ seqInside' = IF SeqInsideCircle(x, y) THEN seqInside + 1 ELSE seqInside
    /\ seqI' = seqI + 1
    /\ seqPc' = SeqAfterLoopTest(seqI + 1, seqN)
    /\ UNCHANGED <<inputVars, mainVars, chanVars, wgCounter, workerVars, cpc,
                   panicked, panicCause, progVars, seqN, seqSeed, seqPi, stream,
                   onProc>>

\* main.go:29
SeqReturn ==
    /\ seqPc = "return"
    /\ seqPi' = [num |-> 4 * seqInside, den |-> seqN]
    /\ seqPc' = "done"
    /\ UNCHANGED <<inputVars, mainVars, chanVars, wgCounter, workerVars, cpc,
                   panicked, panicCause, progVars, seqN, seqSeed, seqI,
                   seqInside, stream, onProc>>

\* ------------------------------------- both estimators on the same samples
\* samples a generator can yield: the centre, a point on the circle, a
\* point outside
StreamPoints == {<<0, 0>>, <<6, 8>>, <<9, 9>>}
StreamLen(n) == IF n < 1 THEN 1 ELSE n
\* the k-th sample a generator yields (the stream repeats after its end)
SampleAt(k) == stream[((k - 1) % Len(stream)) + 1]

\* sequentialPi(N) is called, then parallelPi(N, W); every generator
\* yields the samples of stream
CompareInit ==
    /\ CallInit(1 .. MaxW)
    /\ gomaxprocs = NumCPU
    /\ seqPc = "start"
    /\ seqN = totalPoints
    /\ seqSeed = 0
    /\ seqI = 0
    /\ seqInside = 0
    /\ seqPi = [num |-> 0, den |-> 0]
    /\ stream \in [1 .. StreamLen(totalPoints) -> StreamPoints]
    /\ onProc = {}

CompareNext ==
    \/ SeqStart
    \/ SeqIterateWith(SampleAt(seqI + 1)[1], SampleAt(seqI + 1)[2])
    \/ SeqReturn
    \/ (seqPc = "done" /\ Setup)
    \/ Launch
    \/ SpawnCloser
    \/ Receive
    \/ Return
    \/ \E w \in Workers : WorkerStart(w)
    \/ \E w \in Workers :
          WorkerIterateWith(w, SampleAt(wi[w] + 1)[1], SampleAt(wi[w] + 1)[2])
    \/ \E w \in Workers : WorkerSend(w)
    \/ \E w \in Workers : WorkerDone(w)
    \/ CloserWait
    \/ CloserClose

CompareSpec == CompareInit /\ [][CompareNext]_vars

\* ------------------------------------------------------------------- main
\* main.go:11
TotalPoints == 1000000
\* main.go:120
ThreadCounts == <<2, 4, 8, 16, 32, 64>>

\* report = row + report
ReportPrepend(rep, row) == <<row>> \o rep
\* report += fmt.Sprintf(...), main.go:118 and :129
ReportAppend(rep, row) == Append(rep, row)

\* the process before main runs; GOMAXPROCS defaults to the CPU count
MainInit ==
    /\ totalPoints = 0
    /\ numThreads = 0
    /\ pc = "idle"
    /\ i = 0
    /\ pointsPerWorker = 0
    /\ remainder = 0
    /\ gomaxprocs = NumCPU
    /\ chanCap = 0
    /\ resultChan = <<>>
    /\ closed = FALSE
    /\ closeCount = 0
    /\ wgCounter = 0
    /\ wpc = <<>>
    /\ pts = <<>>
    /\ seed = <<>>
    /\ wi = <<>>
    /\ insideCircle = <<>>
    /\ cpc = "unspawned"
    /\ totalInside = 0
    /\ recvLog = <<>>
    /\ pi = [num |-> 0, den |-> 0]
    /\ panicked = FALSE
    /\ panicCause = "none"
    /\ mpc = "init"
    /\ idx = 0
    /\ report = <<>>
    /\ seqPc = "idle"
    /\ seqN = 0
    /\ seqSeed = 0
    /\ seqI = 0
    /\ seqInside = 0
    /\ seqPi = [num |-> 0, den |-> 0]
    /\ stream = <<>>
    /\ onProc = {}

\* main.go:103-105
MainStart ==
    /\ mpc = "init"
    /\ gomaxprocs' = SetMaxProcs(gomaxprocs, NumCPU)
    /\ mpc' = "seq"
    /\ UNCHANGED <<inputVars, pc, i, pointsPerWorker, remainder, totalInside,
                   recvLog, pi, chanVars, wgCounter, workerVars, cpc, panicked,
                   panicCause, idx, report, seqVars, stream, onProc>>

\* main.go:107-118: sequentialPi(TotalPoints) run to its return in one step,
\* every sample of the run inside the circle or every sample outside it
MainSequential ==
    /\ mpc = "seq"
    /\ seqN' = TotalPoints
    /\ \E now \in 0 .. MaxClock : seqSeed' = now
    /\ seqI' = TotalPoints
    /\ \E hit \in BOOLEAN : seqInside' = IF hit THEN TotalPoints ELSE 0
    /\ seqPi' = [num |-> 4 * seqInside', den |-> TotalPoints]
    /\ seqPc' = "done"
    /\ report' = ReportAppend(report, [threads |-> 1, pi |-> seqPi'])
    /\ idx' = 1
    /\ mpc' = "loop"
    /\ UNCHANGED <<inputVars, mainVars, chanVars, wgCounter, workerVars, cpc,
                   panicked, panicCause, stream, onProc>>

\* main.go:122-123: the next worker count, parallelPi is entered
MainCall ==
    /\ mpc = "loop"
    /\ idx <= Len(ThreadCounts)
    /\ totalPoints' = TotalPoints
    /\ numThreads' = ThreadCounts[idx]
    /\ pc' = "start"
    /\ i' = 0
    /\ pointsPerWorker' = 0
    /\ remainder' = 0
    /\ chanCap' = 0
    /\ resultChan' = <<>>
    /\ closed' = FALSE
    /\ closeCount' = 0
    /\ wgCounter' = 0
    /\ wpc' = [w \in 0 .. (ThreadCounts[idx] - 1) |-> "unlaunched"]
    /\ pts' = [w \in 0 .. (ThreadCounts[idx] - 1) |-> 0]
    /\ seed' = [w \in 0 .. (ThreadCounts[idx] - 1) |-> 0]
    /\ wi' = [w \in 0 .. (ThreadCounts[idx] - 1) |-> 0]
    /\ insideCircle' = [w \in 0 .. (ThreadCounts[idx] - 1) |-> 0]
    /\ cpc' = "unspawned"
    /\ totalInside' = 0
    /\ recvLog' = <<>>
    /\ pi' = [num |-> 0, den |-> 0]
    /\ mpc' = "call"
    /\ UNCHANGED <<gomaxprocs, panicked, panicCause, idx, report, seqVars,
                   stream, onProc>>

\* main.go:34-53 and 77-80 for every worker of the run: the workers run to
\* completion one after the other in launch order, every sample of the run
\* inside the circle or every sample outside it
WorkersRunAll ==
    /\ pc = "range"
    /\ ~panicked
    /\ \A w \in Workers : wpc[w] = "start"
    /\ \E now \in 0 .. MaxClock :
          seed' = [w \in Workers |-> Seed(now, pts[w])]
    /\ wi' = [w \in Workers |-> pts[w]]
    /\ \E hit \in BOOLEAN :
          /\ insideCircle' = [w \in Workers |-> IF hit THEN pts[w] ELSE 0]
          /\ resultChan' = [k \in 1 .. numThreads |->
                               [from |-> k - 1, val |-> IF hit THEN pts[k - 1] ELSE 0]]
    /\ Len(resultChan) + numThreads <= chanCap
    /\ wpc' = [w \in Workers |-> "done"]
    /\ wgCounter' = wgCounter - numThreads
    /\ UNCHANGED <<inputVars, mainVars, chanCap, closed, closeCount, pts, cpc,
                   panicked, panicCause, outerVars>>

\* main.go:123-129: parallelPi has returned, its row is appended
MainAppend ==
    /\ mpc = "call"
    /\ pc = "done"
    /\ report' = ReportAppend(report, [threads |-> numThreads, pi |-> pi])
    /\ idx' = idx + 1
    /\ pc' = "idle"
    /\ mpc' = "loop"
    /\ UNCHANGED <<inputVars, i, pointsPerWorker, remainder, gomaxprocs,
                   totalInside, recvLog, pi, chanVars, wgCounter, workerVars,
                   cpc, panicked, panicCause, seqVars, stream, onProc>>

\* main.go:122 (loop exit), 132-133
MainPrint ==
    /\ mpc = "loop"
    /\ idx > Len(ThreadCounts)
    /\ mpc' = "exit"
    /\ UNCHANGED <<inputVars, mainVars, chanVars, wgCounter, workerVars, cpc,
                   panicked, panicCause, idx, report, seqVars, stream, onProc>>

MainNext ==
    \/ MainStart
    \/ MainSequential
    \/ MainCall
    \/ Setup
    \/ Launch
    \/ SpawnCloser
    \/ WorkersRunAll
    \/ CloserWait
    \/ CloserClose
    \/ Receive
    \/ Return
    \/ MainAppend
    \/ MainPrint

\* the whole program
MainSpec == MainInit /\ [][MainNext]_vars

\* ------------------------------------------------------------- processors
\* goroutines of a run: worker w is w, then the caller and the closer
MainG == numThreads
CloserG == numThreads + 1
Goroutines == Workers \cup {MainG, CloserG}

\* the goroutine has a step it can take
Runnable(g) ==
    IF g = MainG THEN ENABLED MainStep
    ELSE IF g = CloserG THEN ENABLED CloserStep
    ELSE ENABLED WorkerStep(g)

\* at most GOMAXPROCS goroutines execute at a time (main.go:60)
FreeProcessor(held, setting) == Cardinality(held) < setting

\* the scheduler puts a runnable goroutine on a free processor
Dispatch(g) ==
    /\ g \notin onProc
    /\ Runnable(g)
    /\ FreeProcessor(onProc, gomaxprocs)
    /\ onProc' = onProc \cup {g}
    /\ UNCHANGED <<inputVars, mainVars, chanVars, wgCounter, workerVars, cpc,
                   panicked, panicCause, progVars, seqVars, stream>>

\* the goroutine leaves its processor: it blocks, exits or is preempted
Release(g) ==
    /\ g \in onProc
    /\ onProc' = onProc \ {g}
    /\ UNCHANGED <<inputVars, mainVars, chanVars, wgCounter, workerVars, cpc,
                   panicked, panicCause, progVars, seqVars, stream>>

\* parallelPi is called on a processor, with any setting in force
ProcInit ==
    /\ CallInit(1 .. MaxW)
    /\ gomaxprocs \in 1 .. MaxProcs
    /\ SeqIdle
    /\ onProc = {numThreads}

ProcNext ==
    \/ \E g \in Goroutines : Dispatch(g)
    \/ \E g \in Goroutines : Release(g)
    \/ (MainG \in onProc /\ Setup)
    \/ (MainG \in onProc /\ Launch)
    \/ (MainG \in onProc /\ SpawnCloser)
    \/ (MainG \in onProc /\ Receive)
    \/ (MainG \in onProc /\ Return)
    \/ \E w \in Workers : (w \in onProc /\ WorkerStart(w))
    \/ \E w \in Workers : (w \in onProc /\ WorkerIterate(w))
    \/ \E w \in Workers : (w \in onProc /\ WorkerSend(w))
    \/ \E w \in Workers : (w \in onProc /\ WorkerDone(w))
    \/ (CloserG \in onProc /\ CloserWait)
    \/ (CloserG \in onProc /\ CloserClose)

ProcSpec == ProcInit /\ [][ProcNext]_vars

\* The scheduler preempts, is fair among runnable goroutines, and a
\* goroutine put on a processor executes.
ProcFairSpec ==
    /\ ProcSpec
    /\ \A g \in 0 .. (MaxW + 1) :
          /\ WF_vars(g \in Goroutines /\ Release(g))
          /\ SF_vars(g \in Goroutines /\ Dispatch(g))
    /\ SF_vars(MainG \in onProc /\ MainStep)
    /\ SF_vars(CloserG \in onProc /\ CloserStep)
    /\ \A w \in 0 .. (MaxW - 1) : SF_vars(w \in Workers /\ w \in onProc /\ WorkerStep(w))

\* ---------------------------------------------------------------- helpers
RECURSIVE SumOver(_, _)
SumOver(f, S) ==
    IF S = {} THEN 0
    ELSE LET w == CHOOSE v \in S : TRUE IN f[w] + SumOver(f, S \ {w})

\* the range loop's running total over a sequence of received counts
RECURSIVE Aggregate(_, _)
Aggregate(total, counts) ==
    IF counts = <<>> THEN total
    ELSE Aggregate(Accumulate(total, Head(counts)), Tail(counts))

\* per-worker counts in launch order
RECURSIVE CountsFrom(_)
CountsFrom(w) ==
    IF w >= numThreads THEN <<>> ELSE <<insideCircle[w]>> \o CountsFrom(w + 1)

AllLaunched == pc \in {"range", "done"}
Launched(w) == wpc[w] # "unlaunched"
HasSent(w) == wpc[w] \in {"sent", "done"}
\* results of worker w that are buffered or already received
InFlight(w) == {k \in 1 .. Len(resultChan) : resultChan[k].from = w}
Consumed(w) == {k \in 1 .. Len(recvLog) : recvLog[k].from = w}

\* ----------------------------------------------------------------- claims
\* C1: for N >= 1 and W >= 1 the partition sizes handed to the W workers
\* sum to exactly N.
PartitionSumIsTotal ==
    (totalPoints >= 1 /\ AllLaunched) => SumOver(pts, Workers) = totalPoints
PartitionSumWitness ==
    /\ AllLaunched
    /\ totalPoints = 3
    /\ numThreads = 2

\* C2: the worker launched at index k gets floor(N/W)+1 samples when
\* k < N mod W and floor(N/W) otherwise; N=1000000, W=4 gives 4 x 250000.
PartitionShape ==
    /\ \A w \in Workers :
          Launched(w) =>
             pts[w] = IF w < totalPoints % numThreads
                        THEN (totalPoints \div numThreads) + 1
                        ELSE totalPoints \div numThreads
    /\ AllLaunched =>
          \A k \in 0 .. 3 :
             CurrentPoints(k, PointsPerWorker(1000000, 4), Remainder(1000000, 4)) = 250000
PartitionShapeWitness ==
    /\ numThreads = 2
    /\ totalPoints = 3
    /\ Launched(0) /\ Launched(1)
    /\ pts[0] = 2 /\ pts[1] = 1

\* C3: when parallelPi returns, the total it used is the sum of the counts
\* its workers reported; each worker's result is produced once and consumed
\* exactly once; {196300,196400,196200,196100} aggregate to 785000.
AggregateIsSumOfReports ==
    /\ \A w \in Workers : Cardinality(InFlight(w)) + Cardinality(Consumed(w)) <= 1
    /\ pc = "done" =>
          /\ totalInside = SumOver(insideCircle, Workers)
          /\ pi.num = 4 * SumOver(insideCircle, Workers)
          /\ \A w \in Workers :
                /\ Cardinality(Consumed(w)) = 1
                /\ \A k \in Consumed(w) : recvLog[k].val = insideCircle[w]
          /\ Aggregate(0, <<196300, 196400, 196200, 196100>>) = 785000
AggregateWitness ==
    /\ pc = "done"
    /\ numThreads = 2
    /\ insideCircle[0] = 2 /\ insideCircle[1] = 1

\* C4: parallelPi does not return before every worker it launched has sent
\* its result and signalled completion on the WaitGroup.
ReturnAfterAllWorkers ==
    pc = "done" => /\ \A w \in Workers : wpc[w] = "done"
                   /\ wgCounter = 0
ReturnAfterAllWorkersWitness ==
    /\ pc = "done"
    /\ numThreads = 2
    /\ \A w \in Workers : wpc[w] = "done"

\* C5: the estimate is computed only after the results of all W partitions
\* have been collected, never from a partial set.
EstimateFromAllResults ==
    /\ pc # "done" => pi = [num |-> 0, den |-> 0]
    /\ pc = "done" => /\ Len(recvLog) = numThreads
                      /\ {recvLog[k].from : k \in 1 .. Len(recvLog)} = Workers
                      /\ Len(resultChan) = 0
EstimateFromAllResultsWitness ==
    /\ pc = "done"
    /\ numThreads = 2
    /\ pi.num > 0
    /\ Len(recvLog) = 2

\* C6 as stated: no worker result is added to the total before all W
\* workers have signalled completion.
AggregationOnlyAfterBarrier ==
    recvLog # <<>> => /\ wgCounter = 0
                      /\ \A w \in Workers : wpc[w] = "done"

\* C6 amended: the aggregation loop ends only after the join barrier is
\* satisfied (all workers signalled completion, wg.Wait returned, channel
\* closed); single results are added as they arrive, each one only after
\* its worker has sent it.
AggregationEndsAfterBarrier ==
    [][ /\ (pc = "range" /\ pc' # "range") =>
              (wgCounter = 0 /\ cpc = "done" /\ closed)
        /\ (recvLog' # recvLog) =>
              HasSent(Head(resultChan).from) ]_vars
AggregationEndsAfterBarrierWitness ==
    /\ pc = "done"
    /\ cpc = "done"
    /\ wgCounter = 0
    /\ numThreads = 2
    /\ recvLog # <<>>

\* C7: for N >= 0 and W >= 1, under fair scheduling parallelPi eventually
\* returns, and no state before the return is a deadlock.
RunCompletes ==
    /\ <>(pc = "done")
    /\ [](pc # "done" => ENABLED <<Next>>_vars)
RunCompletesWitness ==
    /\ pc = "done"
    /\ totalPoints = 0
    /\ numThreads = 2

\* C8: the result channel has capacity W and gets at most W sends, so a
\* worker at its send is never blocked, whatever the others have done.
SendNeverBlocks ==
    /\ pc # "start" => chanCap = numThreads
    /\ Len(resultChan) + Len(recvLog) <= numThreads
    /\ \A w \in Workers :
          wpc[w] = "send" => (~closed /\ Len(resultChan) < chanCap)
SendNeverBlocksWitness ==
    /\ numThreads = 2
    /\ wpc[1] = "send"
    /\ Len(resultChan) = 1
    /\ recvLog = <<>>

\* C9: the result channel is closed exactly once and only after all W
\* workers have written; no send hits a closed channel; the aggregator
\* receives exactly W values, each one sent by a worker.
ChannelClosedOnceAfterWrites ==
    /\ ~panicked
    /\ closeCount <= 1
    /\ closed <=> closeCount = 1
    /\ closed => \A w \in Workers : HasSent(w)
    /\ \A k \in 1 .. Len(recvLog) :
          /\ recvLog[k].from \in Workers
          /\ HasSent(recvLog[k].from)
          /\ recvLog[k].val = insideCircle[recvLog[k].from]
    /\ pc = "done" => (closeCount = 1 /\ Len(recvLog) = numThreads)
ChannelClosedOnceWitness ==
    /\ closed
    /\ closeCount = 1
    /\ pc = "range"
    /\ Len(resultChan) = 2

\* C10: for fixed per-worker counts the returned total is the same in every
\* completion order: adding the workers' counts in any order of arrival
\* gives the total the run returned.
ArrivalOrders ==
    {p \in [1 .. numThreads -> Workers] : \A w \in Workers : \E k \in 1 .. numThreads : p[k] = w}
TotalIndependentOfOrder ==
    pc = "done" =>
       \A p \in ArrivalOrders :
          Aggregate(0, [k \in 1 .. numThreads |-> insideCircle[p[k]]]) = totalInside
TotalIndependentOfOrderWitness ==
    /\ pc = "done"
    /\ numThreads = 2
    /\ recvLog[1].from = 1
    /\ recvLog[2].from = 0
    /\ insideCircle[0] = 2 /\ insideCircle[1] = 1

\* C11: no two workers of one run obtain the same seed, whatever clock
\* readings they observe.
Seeded(w) == wpc[w] \notin {"unlaunched", "start"}
SeedsUnique ==
    \A v \in Workers, w \in Workers :
       (v # w /\ Seeded(v) /\ Seeded(w)) => seed[v] # seed[w]

\* C13: when N < W, W workers are still launched, exactly W - N of them get
\* 0 samples, each of those runs its loop 0 times and reports 0, no error
\* occurs, the run completes and the total is the sum of the other workers'
\* counts.
EmptyWorkers == {w \in Workers : pts[w] = 0}
ZeroPartitionsSafe ==
    totalPoints < numThreads =>
       /\ ~panicked
       /\ AllLaunched =>
             /\ i = numThreads
             /\ \A w \in Workers : Launched(w)
             /\ Cardinality(EmptyWorkers) = numThreads - totalPoints
             /\ \A w \in EmptyWorkers :
                   /\ wi[w] = 0
                   /\ insideCircle[w] = 0
                   /\ wpc[w] # "loop"
                   /\ \A k \in InFlight(w) : resultChan[k].val = 0
                   /\ \A k \in Consumed(w) : recvLog[k].val = 0
       /\ pc = "done" =>
             /\ Len(recvLog) = numThreads
             /\ totalInside = SumOver(insideCircle, Workers \ EmptyWorkers)
ZeroPartitions ==
    /\ []ZeroPartitionsSafe
    /\ (totalPoints < numThreads) => <>(pc = "done")
ZeroPartitionsWitness ==
    /\ pc = "done"
    /\ totalPoints = 1
    /\ numThreads = 2
    /\ EmptyWorkers = {1}
    /\ totalInside = 1

\* C16: a worker's generator and counter are written by that worker alone,
\* a worker's step touches nothing but its own locals, the result channel
\* and the WaitGroup, and no goroutine other than the one running parallelPi
\* writes parallelPi's locals.
Locals(w) == <<seed[w], wi[w], insideCircle[w]>>
ByWorker(w) == wpc[w] # "unlaunched" /\ (wpc'[w] # wpc[w] \/ wi'[w] # wi[w])
NoSharedWorkerState ==
    [][ \A w \in Workers :
           /\ Locals(w)' # Locals(w) => ByWorker(w)
           /\ ByWorker(w) =>
                 /\ \A v \in Workers \ {w} :
                       Locals(v)' = Locals(v) /\ wpc'[v] = wpc[v]
                 /\ UNCHANGED <<mainVars, inputVars, pts, cpc, closed, closeCount, chanCap>>
                 /\ resultChan' # resultChan =>
                       resultChan' = Append(resultChan, [from |-> w, val |-> insideCircle[w]])
      ]_vars
NoSharedWorkerStateWitness ==
    /\ numThreads = 2
    /\ wpc[0] = "loop" /\ wi[0] = 1 /\ insideCircle[0] = 1
    /\ wpc[1] = "send" /\ wi[1] = 1 /\ insideCircle[1] = 0

\* C18: parallelPi called with W <= 0 never returns an estimate: it panics
\* (integer division by zero for W = 0, invalid channel size for W < 0)
\* before any worker is launched.
BadWorkerCountPanics ==
    numThreads <= 0 =>
       /\ pc \in {"start", "panic"}
       /\ pc = "panic" <=> panicked
       /\ panicked =>
             panicCause = IF numThreads = 0 THEN "integer divide by zero"
                                            ELSE "makechan: size out of range"
       /\ pi = [num |-> 0, den |-> 0]
       /\ i = 0 /\ wgCounter = 0 /\ cpc = "unspawned"
       /\ ~ENABLED (Launch \/ SpawnCloser \/ Receive \/ Return)
BadWorkerCountWitness ==
    /\ numThreads = 0
    /\ pc = "panic"
    /\ panicCause = "integer divide by zero"

\* C14: the report holds exactly one row per executed configuration, in
\* execution order: the sequential run, then 2, 4, 8, 16, 32, 64; a run
\* starts only after the previous one has returned and its row is appended.
Configurations == <<1>> \o ThreadCounts
ReportRowsSoFar ==
    /\ Len(report) <= Len(Configurations)
    /\ \A k \in 1 .. Len(report) : report[k].threads = Configurations[k]
    /\ mpc \in {"init", "seq"} => report = <<>>
    /\ mpc = "loop" => Len(report) = idx
    /\ mpc = "call" => /\ Len(report) = idx
                       /\ numThreads = Configurations[idx + 1]
    /\ mpc = "exit" => [k \in 1 .. Len(report) |-> report[k].threads] = <<1, 2, 4, 8, 16, 32, 64>>
ReportInExecutionOrder ==
    /\ []ReportRowsSoFar
    /\ [][ /\ report' # report =>
                 /\ Len(report') = Len(report) + 1
                 /\ SubSeq(report', 1, Len(report)) = report
                 /\ report'[Len(report')].pi = IF mpc = "seq" THEN seqPi' ELSE pi
                 /\ mpc = "seq" \/ pc = "done"
           /\ (pc' = "start" /\ pc # "start") =>
                 /\ Len(report) = idx
                 /\ idx = 1 \/ (pc = "idle" /\ report[idx].pi = pi)
         ]_vars
ReportInExecutionOrderWitness ==
    /\ mpc = "exit"
    /\ Len(report) = 7
    /\ report[1].pi.num = 0
    /\ report[7].threads = 64
    /\ report[7].pi.num = 4000000

\* C19: each parallelPi(N, W) call with W >= 1 sets the max-parallelism
\* setting to W once, before any worker is launched, and does not restore
\* it: it is still W after the return, and 64, not the CPU count, after
\* main's last run.
MaxProcsDuringRuns ==
    /\ (mpc = "call" /\ pc # "start") => gomaxprocs = numThreads
    /\ \A w \in Workers : Launched(w) => gomaxprocs = numThreads
    /\ (mpc = "loop" /\ idx > 1) => gomaxprocs = ThreadCounts[idx - 1]
    /\ (mpc \in {"seq", "loop"} /\ idx <= 1) => gomaxprocs = NumCPU
    /\ mpc = "exit" => /\ gomaxprocs = 64
                       /\ NumCPU # 64 => gomaxprocs # NumCPU
MaxProcsSetOncePerRun ==
    /\ []MaxProcsDuringRuns
    /\ [][ gomaxprocs' # gomaxprocs =>
              /\ mpc = "call" /\ pc = "start" /\ pc' = "launch"
              /\ gomaxprocs' = numThreads
              /\ \A w \in Workers : ~Launched(w)
         ]_vars
MaxProcsWitness ==
    /\ mpc = "exit"
    /\ gomaxprocs = 64
    /\ numThreads = 64
    /\ pc = "idle"

\* C12: in worker and in sequentialPi the inside-circle counter is at every
\* step between 0 and the number of iterations done, so a worker reports a
\* count in [0, its partition size] and the sequential count is in [0, N].
CounterBounded ==
    /\ \A w \in Workers :
          /\ 0 <= insideCircle[w]
          /\ insideCircle[w] <= wi[w]
          /\ wi[w] <= pts[w]
    /\ \A k \in 1 .. Len(resultChan) :
          resultChan[k].val \in 0 .. pts[resultChan[k].from]
    /\ \A k \in 1 .. Len(recvLog) :
          recvLog[k].val \in 0 .. pts[recvLog[k].from]
    /\ 0 <= seqInside
    /\ seqInside <= seqI
    /\ seqI <= seqN
    /\ seqPc = "done" => seqPi.num \in 0 .. 4 * seqN
CounterBoundedWitness ==
    /\ seqPc = "done"
    /\ seqN = 3
    /\ seqInside = 3
    /\ numThreads = 2
    /\ Len(recvLog) = 2
    /\ insideCircle[0] = pts[0]
    /\ insideCircle[1] = pts[1]

\* C17: parallelPi with W = 1 launches exactly one worker whose partition
\* is all N samples; fed the same samples its count, and so the estimate
\* 4*count/N, equals what sequentialPi computes.
LoopLeft(w) == wpc[w] \in {"send", "sent", "done"}
SingleWorkerMatchesSequential ==
    numThreads = 1 =>
       /\ Workers = {0}
       /\ i <= 1
       /\ Launched(0) => pts[0] = totalPoints
       /\ Launched(0) => seqPc = "done"
       /\ LoopLeft(0) => (wi[0] = seqI /\ insideCircle[0] = seqInside)
       /\ pc = "done" => /\ Len(recvLog) = 1
                         /\ totalInside = seqInside
                         /\ pi = seqPi
SingleWorkerWitness ==
    /\ numThreads = 1
    /\ totalPoints = 3
    /\ pc = "done"
    /\ seqInside = 2
    /\ pi.num = 8

\* C15: the max-parallelism setting affects performance only: whatever
\* setting P >= 1 is in force and however few processors the goroutines
\* share, parallelPi(N, W) hands out the same partitions, terminates and
\* returns the sum of its workers' counts.
SameResultOnAnyProcessors ==
    /\ Cardinality(onProc) <= gomaxprocs
    /\ ~panicked
    /\ \A w \in Workers :
          Launched(w) =>
             pts[w] = CurrentPoints(w, GoDiv(totalPoints, numThreads),
                                       GoMod(totalPoints, numThreads))
    /\ pc = "done" =>
          /\ \A w \in Workers : wpc[w] = "done" /\ Cardinality(Consumed(w)) = 1
          /\ totalInside = SumOver(insideCircle, Workers)
          /\ pi = [num |-> 4 * totalInside, den |-> totalPoints]
ParallelismOnlyPerformance ==
    /\ []SameResultOnAnyProcessors
    /\ <>(pc = "done")
ParallelismWitness ==
    /\ numThreads = 1
    /\ gomaxprocs = 1
    /\ cpc = "wait"
    /\ pc = "range"
    /\ wpc[0] = "loop"
    /\ onProc = {0}

====
